---- MODULE Spec2Model ----
(***************************************************************************)
(* TLA+ model of the protocol layer of mklhs (multi-key linearly           *)
(* homomorphic signatures): keygen, sign, organize, eval, and the data     *)
(* types Label and LabeledProgram.                                         *)
(*                                                                         *)
(* The scalar field Fr is modelled by the integers modulo FieldOrder; the  *)
(* groups G1 and G2 are cyclic of that order and an element is written by  *)
(* its discrete logarithm with respect to the group's generator, tagged    *)
(* with the group it belongs to.  Byte arrays [u8; K] are sequences of     *)
(* length K over 0..MaxByte.  Vec indices are 0-based as in the source;    *)
(* TLA+ sequences are 1-based, so index i of the source is position i+1.   *)
(***************************************************************************)
EXTENDS Integers, Sequences, FiniteSets, TLC

\* ---------------------------------------------------------------- bounds
\* length K of Id and Tag byte arrays
K == 2
\* largest value of one byte
MaxByte == 1
\* order of the scalar field and of both groups
FieldOrder == 3
\* longest coeffs / labels / sign_shares vector
MaxN == 3
\* longest prefix of the scalar stream of a randomness source
MaxDraws == 3

VARIABLES
    op,       \* the API function that returned last ("none" before any call)
    args,     \* the arguments of that call
    ret,      \* the Result it returned
    program   \* the LabeledProgram value that exists (NoProgram before any)

vars == <<op, args, ret, program>>

\* ------------------------------------------------------- Result / errors
Ok(v) == [ok |-> TRUE, val |-> v]

Err(e) == [ok |-> FALSE, err |-> e]

InvalidInput == "InvalidInput"

RngError == "Rng"

\* AlgebraError::HashToCurve
HashToCurve == "HashToCurve"

\* ProtocolError::Algebra, the conversion that `?` applies to an AlgebraError
Algebra(e) == <<"Algebra", e>>

\* ----------------------------------------------------------------- algebra
Scalar == 0 .. (FieldOrder - 1)

FAdd(a, b) == (a + b) % FieldOrder

FMul(a, b) == (a * b) % FieldOrder

ScalarZero == 0

is_zero(x) == x = ScalarZero

G1 == [grp : {"G1"}, e : Scalar]

G2 == [grp : {"G2"}, e : Scalar]

G1Zero == [grp |-> "G1", e |-> 0]

g1_gen == [grp |-> "G1", e |-> 1]

g2_gen == [grp |-> "G2", e |-> 1]

\* point addition
GAdd(p, q) == [grp |-> p.grp, e |-> (p.e + q.e) % FieldOrder]

\* scalar multiplication  p * s
GMul(p, s) == [grp |-> p.grp, e |-> (p.e * s) % FieldOrder]

\* ------------------------------------------------------------------- types
Byte == 0 .. MaxByte

RECURSIVE Arrays(_)
\* all byte arrays of length len
Arrays(len) == IF len = 0 THEN {<<>>}
               ELSE {Append(a, b) : a \in Arrays(len - 1), b \in Byte}

Id == Arrays(K)

Tag == Arrays(K)

Label_new(id, tag) == [id |-> id, tag |-> tag]

Label == [id : Id, tag : Tag]

\* mutant: the identity bytes are written twice and the tag bytes never
to_bytes_id_twice(label) == label.id \o label.id

to_bytes(label) == label.id \o label.tag

SignShare_new(id, gamma, mu) == [id |-> id, gamma |-> gamma, mu |-> mu]

SignAggr_new(gamma, ord_ids, mus) ==
    [gamma |-> gamma, ord_ids |-> ord_ids, mus |-> mus]

\* mutant: the longer vector is cut to the length of the shorter one
LabeledProgram_new_truncating(coeffs, labels) ==
    LET m == IF Len(coeffs) < Len(labels) THEN Len(coeffs) ELSE Len(labels)
    IN  Ok([coeffs |-> SubSeq(coeffs, 1, m), labels |-> SubSeq(labels, 1, m)])

LabeledProgram_new(coeffs, labels) ==
    IF Len(coeffs) # Len(labels)
    THEN Err(InvalidInput)
    ELSE Ok([coeffs |-> coeffs, labels |-> labels])

n(prog) == Len(prog.coeffs)

NoProgram == [coeffs |-> <<>>, labels |-> <<>>, none |-> TRUE]

\* ---------------------------------------------------------------- organize
\* mutant: the map is never consulted, every label opens a new group
organize_step_always_new(st, i, lab) ==
    LET j == Len(st.ord_ids)
    IN  [ord_ids   |-> Append(st.ord_ids, lab.id),
         groups    |-> Append(st.groups, <<i>>),
         id_to_idx |-> [d \in DOMAIN st.id_to_idx \cup {lab.id} |->
                          IF d = lab.id THEN j ELSE st.id_to_idx[d]]]

\* one iteration of the for loop: st = [ord_ids, groups, id_to_idx]
organize_step(st, i, lab) ==
    LET id   == lab.id
        seen == id \in DOMAIN st.id_to_idx
        j    == IF seen THEN st.id_to_idx[id] ELSE Len(st.ord_ids)
        ords == IF seen THEN st.ord_ids ELSE Append(st.ord_ids, id)
        grps == IF seen THEN st.groups ELSE Append(st.groups, <<>>)
        map  == IF seen THEN st.id_to_idx
                ELSE [d \in DOMAIN st.id_to_idx \cup {id} |->
                        IF d = id THEN j ELSE st.id_to_idx[d]]
    IN  [ord_ids   |-> ords,
         groups    |-> [grps EXCEPT ![j + 1] = Append(@, i)],
         id_to_idx |-> map]

RECURSIVE organize_loop(_, _, _)
organize_loop(labels, i, st) ==
    IF i >= Len(labels) THEN st
    ELSE organize_loop(labels, i + 1, organize_step(st, i, labels[i + 1]))

organize(labels) ==
    LET st == organize_loop(labels, 0,
                  [ord_ids |-> <<>>, groups |-> <<>>, id_to_idx |-> <<>>])
    IN  <<st.ord_ids, st.groups>>

\* -------------------------------------------------------------------- eval
\* mutant: only too few shares are rejected, surplus shares are ignored
length_mismatch_too_few(coeffs, labels, sign_shares) ==
    Len(coeffs) # Len(labels) \/ Len(coeffs) > Len(sign_shares)

length_mismatch(coeffs, labels, sign_shares) ==
    Len(coeffs) # Len(labels) \/ Len(coeffs) # Len(sign_shares)

RECURSIVE eval_gamma_from(_, _, _, _)
\* coeffs.iter().enumerate().map(|(i, f_i)| sign_shares[i].gamma * f_i).sum():
\* the fold of the terms from index i on into the accumulator acc
eval_gamma_from(coeffs, sign_shares, i, acc) ==
    IF i >= Len(coeffs) THEN acc
    ELSE eval_gamma_from(coeffs, sign_shares, i + 1,
                         GAdd(acc, GMul(sign_shares[i + 1].gamma, coeffs[i + 1])))

\* mutant: the sum starts at the second entry
eval_gamma_skip_first(coeffs, sign_shares) ==
    eval_gamma_from(coeffs, sign_shares, 1, G1Zero)

\* mutant: the gammas are added without their coefficients
eval_gamma_unweighted(coeffs, sign_shares) ==
    eval_gamma_from([i \in 1 .. Len(coeffs) |-> 1], sign_shares, 0, G1Zero)

eval_gamma(coeffs, sign_shares) == eval_gamma_from(coeffs, sign_shares, 0, G1Zero)

RECURSIVE eval_mu_unweighted(_, _, _, _, _)
\* mutant: the messages of a group are added without their coefficients
eval_mu_unweighted(coeffs, sign_shares, idxs, k, acc) ==
    IF k > Len(idxs) THEN acc
    ELSE eval_mu_unweighted(coeffs, sign_shares, idxs, k + 1,
                            FAdd(acc, sign_shares[idxs[k] + 1].mu))

RECURSIVE eval_mu(_, _, _, _, _)
\* idxs.iter().map(|&i| coeffs[i] * sign_shares[i].mu()).sum():
\* the fold of the terms from the k-th index of idxs on into acc
eval_mu(coeffs, sign_shares, idxs, k, acc) ==
    IF k > Len(idxs) THEN acc
    ELSE eval_mu(coeffs, sign_shares, idxs, k + 1,
                 FAdd(acc, FMul(coeffs[idxs[k] + 1], sign_shares[idxs[k] + 1].mu)))

\* mutant: every group sums over all the entries of the program
eval_mus_ungrouped(coeffs, sign_shares, groups) ==
    [j \in 1 .. Len(groups) |->
        eval_mu(coeffs, sign_shares, [i \in 1 .. Len(coeffs) |-> i - 1], 1,
                ScalarZero)]

eval_mus(coeffs, sign_shares, groups) ==
    [j \in 1 .. Len(groups) |->
        eval_mu(coeffs, sign_shares, groups[j], 1, ScalarZero)]

\* mutant: the stricter mode, a share must carry the identity of its label
eval_checked_ids(prog, sign_shares) ==
    IF length_mismatch(prog.coeffs, prog.labels, sign_shares)
       \/ \E i \in 1 .. Len(sign_shares) : sign_shares[i].id # prog.labels[i].id
    THEN Err(InvalidInput)
    ELSE Ok(SignAggr_new(eval_gamma(prog.coeffs, sign_shares),
                         organize(prog.labels)[1],
                         eval_mus(prog.coeffs, sign_shares, organize(prog.labels)[2])))

eval(prog, sign_shares) ==
    LET coeffs == prog.coeffs
        labels == prog.labels
    IN  IF length_mismatch(coeffs, labels, sign_shares)
        THEN Err(InvalidInput)
        ELSE LET gamma == eval_gamma(coeffs, sign_shares)
                 og    == organize(labels)
                 mus   == eval_mus(coeffs, sign_shares, og[2])
             IN  Ok(SignAggr_new(gamma, og[1], mus))

\* --------------------------------------------------------- params / hashing
\* the domain separation tag of H(label), as a number seeding the digest
DST_H2G1_LABEL == 1

\* a hash-to-G1 instance: its tag and the messages the primitive rejects
make_h2g1(dst, rejects) == [dst |-> dst, rejects |-> rejects]

Params_new == [dst_h2g1_label |-> DST_H2G1_LABEL,
               h2g1_label     |-> make_h2g1(DST_H2G1_LABEL, {})]

RECURSIVE Digest(_, _, _)
\* the discrete logarithm of the point a message is mapped to
Digest(h, msg, k) ==
    IF k > Len(msg) THEN h
    ELSE Digest((2 * h + msg[k] + 1) % FieldOrder, msg, k + 1)

hash_to_g1_with(hasher, msg) ==
    IF msg \in hasher.rejects
    THEN Err(HashToCurve)
    ELSE Ok([grp |-> "G1", e |-> Digest(hasher.dst % FieldOrder, msg, 1)])

\* -------------------------------------------------------------------- keys
SecretKey_new(id, value) == [id |-> id, value |-> value]

PublicKey_new(id, value) == [id |-> id, value |-> value]

\* the call has not returned: the loop is still drawing
Pending == [ok |-> FALSE, err |-> "pending"]

\* mutant: the first scalar drawn is taken, zero or not
sample_first(scalars, k) == Ok(scalars[k])

RECURSIVE sample_nonzero(_, _)
\* let mut x = Scalar::rand(rng); while x.is_zero() { x = Scalar::rand(rng); }
\* over the stream of scalars the source yields, from draw k on
sample_nonzero(scalars, k) ==
    IF k > Len(scalars) THEN Pending
    ELSE IF is_zero(scalars[k]) THEN sample_nonzero(scalars, k + 1)
    ELSE Ok(scalars[k])

\* rng = [fill : the Result of try_fill_bytes, scalars : the scalars it yields]
keygen(pp, rng) ==
    IF ~rng.fill.ok THEN Err(RngError)
    ELSE LET id == rng.fill.val
             x  == sample_nonzero(rng.scalars, 1)
         IN  IF ~x.ok THEN Pending
             ELSE Ok(<<SecretKey_new(id, x.val),
                       PublicKey_new(id, GMul(g2_gen, x.val))>>)

\* -------------------------------------------------------------------- sign
\* mutant: only the hash is multiplied by the secret scalar
sign_misgrouped(pp, sk, label, msg) ==
    LET h == hash_to_g1_with(pp.h2g1_label, to_bytes(label))
    IN  IF ~h.ok THEN Err(Algebra(h.err))
        ELSE Ok(SignShare_new(sk.id,
                              GAdd(GMul(h.val, sk.value), GMul(g1_gen, msg)),
                              msg))

sign(pp, sk, label, msg) ==
    LET label_bytes == to_bytes(label)
        h           == hash_to_g1_with(pp.h2g1_label, label_bytes)
    IN  IF ~h.ok THEN Err(Algebra(h.err))
        ELSE LET gamma == GMul(GAdd(h.val, GMul(g1_gen, msg)), sk.value)
             IN  Ok(SignShare_new(sk.id, gamma, msg))

\* ------------------------------------------------------------ input domains
\* the array [b; K]
ConstArray(b) == [i \in 1 .. K |-> b]

\* identities of the signers that programs and shares name
SignerIds == {ConstArray(b) : b \in Byte}

RECURSIVE CounterArray(_, _)
\* the counter c written as len bytes, most significant first
CounterArray(c, len) ==
    IF len = 0 THEN <<>>
    ELSE Append(CounterArray(c \div (MaxByte + 1), len - 1), c % (MaxByte + 1))

\* labels of a program: entry i is issued by ids[i] under the tag that counts i
ProgramLabels(ids) ==
    [i \in 1 .. Len(ids) |-> Label_new(ids[i], CounterArray(i - 1, K))]

Shares == {SignShare_new(id, gamma, mu) : id \in SignerIds, gamma \in G1, mu \in Scalar}

\* a context whose hasher rejects the messages that start with the largest byte
FaultyParams == [dst_h2g1_label |-> DST_H2G1_LABEL,
                 h2g1_label     |-> make_h2g1(DST_H2G1_LABEL,
                                        {m \in Arrays(2 * K) : m[1] = MaxByte})]

ParamsSet == {Params_new, FaultyParams}

RngSources ==
    {[fill |-> f, scalars |-> s] :
        f \in {Err(RngError)} \cup {Ok(id) : id \in Id},
        s \in UNION {[1 .. len -> Scalar] : len \in 1 .. MaxDraws}}

\* ----------------------------------------------------------------- actions
Init ==
    /\ op = "none"
    /\ args = <<>>
    /\ ret = Ok(<<>>)
    /\ program = NoProgram

\* Every function is pure and every value immutable, so a behaviour is one call,
\* or one LabeledProgram::new followed by one eval of the program it built.
NewProgramCall ==
    /\ op = "none"
    /\ \E lc \in 0 .. MaxN, ll \in 0 .. MaxN :
       \E coeffs \in [1 .. lc -> Scalar], ids \in [1 .. ll -> SignerIds] :
        LET labels == ProgramLabels(ids)
            r      == LabeledProgram_new(coeffs, labels)
        IN  /\ op' = "new"
            /\ args' = [coeffs |-> coeffs, labels |-> labels]
            /\ ret' = r
            /\ program' = IF r.ok THEN r.val ELSE program

EvalCall ==
    /\ op = "new"
    /\ ret.ok
    /\ \E len \in 0 .. MaxN : \E sign_shares \in [1 .. len -> Shares] :
        /\ op' = "eval"
        /\ args' = [sign_shares |-> sign_shares]
        /\ ret' = eval(program, sign_shares)
        /\ program' = program

OrganizeCall ==
    /\ op = "none"
    /\ \E len \in 0 .. MaxN : \E ids \in [1 .. len -> Id] :
        LET labels == ProgramLabels(ids)
        IN  /\ op' = "organize"
            /\ args' = [labels |-> labels]
            /\ ret' = organize(labels)
            /\ program' = program

ToBytesCall ==
    /\ op = "none"
    /\ \E label \in Label :
        /\ op' = "to_bytes"
        /\ args' = [label |-> label]
        /\ ret' = to_bytes(label)
        /\ program' = program

SignCall ==
    /\ op = "none"
    /\ \E pp \in ParamsSet, id \in SignerIds, value \in Scalar, label \in Label,
          msg \in Scalar :
        LET sk == SecretKey_new(id, value)
        IN  /\ op' = "sign"
            /\ args' = [pp |-> pp, sk |-> sk, label |-> label, msg |-> msg]
            /\ ret' = sign(pp, sk, label, msg)
            /\ program' = program

KeygenCall ==
    /\ op = "none"
    /\ \E rng \in RngSources :
        /\ op' = "keygen"
        /\ args' = [rng |-> rng]
        /\ ret' = keygen(Params_new, rng)
        /\ program' = program

\* Every entry of the program is signed by the signer its label names: keys
\* gives each signer's secret scalar and msgs the message of each entry.  The
\* first sign that fails ends the signing with its error, as `?` and unwrap do.
SignEachCall ==
    /\ op = "new"
    /\ ret.ok
    /\ \E pp \in ParamsSet, keys \in [SignerIds -> Scalar],
          msgs \in [1 .. n(program) -> Scalar] :
        LET labels  == program.labels
            results == [i \in 1 .. n(program) |->
                           sign(pp, SecretKey_new(labels[i].id, keys[labels[i].id]),
                                labels[i], msgs[i])]
            failed  == {i \in 1 .. n(program) : ~results[i].ok}
        IN  /\ op' = "sign_each"
            /\ args' = [pp |-> pp, keys |-> keys, msgs |-> msgs]
            /\ ret' = IF failed = {}
                      THEN Ok([i \in 1 .. n(program) |-> results[i].val])
                      ELSE results[CHOOSE i \in failed : \A k \in failed : i <= k]
            /\ program' = program

\* eval of the program over the shares that SignEachCall produced
EvalSignedCall ==
    /\ op = "sign_each"
    /\ ret.ok
    /\ op' = "eval"
    /\ args' = [pp |-> args.pp, keys |-> args.keys, sign_shares |-> ret.val]
    /\ ret' = eval(program, ret.val)
    /\ program' = program

\* building and evaluating labeled programs
NextEval == NewProgramCall \/ EvalCall

SpecEval == Init /\ [][NextEval]_vars

\* the functions that take no program
NextCalls == OrganizeCall \/ ToBytesCall \/ SignCall \/ KeygenCall

SpecCalls == Init /\ [][NextCalls]_vars

\* signing every entry of a program and evaluating it over those shares
NextSignEval == NewProgramCall \/ SignEachCall \/ EvalSignedCall

SpecSignEval == Init /\ [][NextSignEval]_vars

Next == NextEval \/ NextCalls \/ NextSignEval

Spec == Init /\ [][Next]_vars

\* ------------------------------------------------- reference definitions
RECURSIVE SumMod(_, _)
\* the sum, in the field, of t[i] over the indices i of S
SumMod(t, S) ==
    IF S = {} THEN 0
    ELSE LET i == CHOOSE i \in S : TRUE
         IN  (t[i] + SumMod(t, S \ {i})) % FieldOrder

Range(s) == {s[i] : i \in 1 .. Len(s)}

\* the position at which identity id first occurs in labels
FirstIdx(labels, id) ==
    CHOOSE i \in 1 .. Len(labels) :
        /\ labels[i].id = id
        /\ \A k \in 1 .. (i - 1) : labels[k].id # id

\* ord lists each identity of labels once, in order of first occurrence
FirstOccurrenceOrder(ord, labels) ==
    /\ Range(ord) = {labels[i].id : i \in 1 .. Len(labels)}
    /\ \A j, k \in 1 .. Len(ord) :
        j < k => /\ ord[j] # ord[k]
                 /\ FirstIdx(labels, ord[j]) < FirstIdx(labels, ord[k])

\* the terms coeffs[i] * shares[i].gamma and coeffs[i] * shares[i].mu of a call
GammaTerms(prog, shares) ==
    [i \in 1 .. Len(shares) |-> prog.coeffs[i] * shares[i].gamma.e]

MuTerms(prog, shares) ==
    [i \in 1 .. Len(shares) |-> prog.coeffs[i] * shares[i].mu]

LengthsAgree(prog, shares) ==
    /\ Len(prog.coeffs) = Len(prog.labels)
    /\ Len(prog.labels) = Len(shares)

\* ------------------------------------------------------------------ claims
\* C1: eval returns Err(InvalidInput), and no aggregate, whenever the lengths
\* of program.coeffs, program.labels and the shares are not all equal; when
\* they are equal it returns Ok with an aggregate.
C1_EvalLengthCheck ==
    op = "eval" =>
        IF LengthsAgree(program, args.sign_shares)
        THEN /\ ret.ok
             /\ DOMAIN ret.val = {"gamma", "ord_ids", "mus"}
        ELSE /\ ret = Err(InvalidInput)
             /\ "val" \notin DOMAIN ret

\* eval was called with more shares than the program has entries and failed
C1_Witness ==
    /\ op = "eval"
    /\ Len(args.sign_shares) = Len(program.labels) + 1
    /\ ~ret.ok

\* C2: LabeledProgram::new fails with InvalidInput exactly when the lengths of
\* coeffs and labels differ; on success the program holds the given sequences
\* unchanged, so every program that exists has len(coeffs) = len(labels) = n().
C2_NewProgramLengths ==
    /\ op = "new" =>
        /\ ret.ok <=> Len(args.coeffs) = Len(args.labels)
        /\ ~ret.ok => ret = Err(InvalidInput) /\ program = NoProgram
        /\ ret.ok => /\ ret.val.coeffs = args.coeffs
                     /\ ret.val.labels = args.labels
                     /\ program = ret.val
    /\ program # NoProgram =>
        /\ Len(program.coeffs) = Len(program.labels)
        /\ n(program) = Len(program.labels)

\* LabeledProgram::new was given more coefficients than labels and failed
C2_Witness ==
    /\ op = "new"
    /\ Len(args.coeffs) > Len(args.labels)
    /\ Len(args.labels) > 0
    /\ ret = Err(InvalidInput)

\* C3: the gamma of a successful eval is the sum over every i of
\* coeffs[i] * shares[i].gamma; for one entry of coefficient 1 it is that
\* share's gamma, and for no entry it is the identity of G1.
C3_GammaIsWeightedSum ==
    (op = "eval" /\ ret.ok) =>
        LET shares == args.sign_shares
            len    == Len(shares)
        IN  /\ ret.val.gamma =
                [grp |-> "G1",
                 e   |-> SumMod(GammaTerms(program, shares), 1 .. len)]
            /\ (len = 1 /\ program.coeffs[1] = 1) =>
                    ret.val.gamma = shares[1].gamma
            /\ len = 0 => ret.val.gamma = G1Zero

\* a successful eval over MaxN entries whose coefficients are all nonzero and
\* not all equal, with a gamma that is not the identity
C3_Witness ==
    /\ op = "eval"
    /\ ret.ok
    /\ Len(args.sign_shares) = MaxN
    /\ \A i \in 1 .. MaxN : program.coeffs[i] # 0 /\ args.sign_shares[i].gamma.e # 0
    /\ \E i, k \in 1 .. MaxN : program.coeffs[i] # program.coeffs[k]
    /\ ret.val.gamma # G1Zero

\* C4: the ord_ids of a successful eval are the distinct identities of the
\* program's labels in order of first occurrence, mus is as long as ord_ids,
\* and mus[j] is the sum of coeffs[i] * shares[i].mu over exactly the i whose
\* label identity is ord_ids[j].
C4_MusGroupedBySigner ==
    (op = "eval" /\ ret.ok) =>
        LET shares == args.sign_shares
            labels == program.labels
            aggr   == ret.val
        IN  /\ FirstOccurrenceOrder(aggr.ord_ids, labels)
            /\ Len(aggr.mus) = Len(aggr.ord_ids)
            /\ \A j \in 1 .. Len(aggr.ord_ids) :
                aggr.mus[j] =
                    SumMod(MuTerms(program, shares),
                           {i \in 1 .. Len(labels) : labels[i].id = aggr.ord_ids[j]})

\* labels [A, B, A]: two signers, the first with two entries, and mus differ
C4_Witness ==
    /\ op = "eval"
    /\ ret.ok
    /\ Len(program.labels) = 3
    /\ program.labels[1].id = program.labels[3].id
    /\ program.labels[1].id # program.labels[2].id
    /\ Len(ret.val.ord_ids) = 2
    /\ ret.val.mus[1] # ret.val.mus[2]
    /\ \A i \in 1 .. 3 : program.coeffs[i] # 0 /\ args.sign_shares[i].mu # 0

\* C5: organize returns as many groups as ord_ids; ord_ids holds each
\* identity once in order of first appearance; the groups partition the
\* indices 0..n-1; group j holds exactly the indices whose label identity is
\* ord_ids[j], in increasing order.
C5_OrganizePartitions ==
    op = "organize" =>
        LET labels  == args.labels
            ord_ids == ret[1]
            groups  == ret[2]
        IN  /\ Len(groups) = Len(ord_ids)
            /\ FirstOccurrenceOrder(ord_ids, labels)
            /\ \A i \in 0 .. (Len(labels) - 1) :
                Cardinality({<<j, k>> \in
                    UNION {{<<j2, k2>> : k2 \in 1 .. Len(groups[j2])} :
                              j2 \in 1 .. Len(groups)} :
                    groups[j][k] = i}) = 1
            /\ \A j \in 1 .. Len(groups) :
                /\ Range(groups[j]) =
                    {i \in 0 .. (Len(labels) - 1) : labels[i + 1].id = ord_ids[j]}
                /\ \A k \in 1 .. (Len(groups[j]) - 1) :
                    groups[j][k] < groups[j][k + 1]

\* organize over MaxN labels of which the first and the last share an identity
C5_Witness ==
    /\ op = "organize"
    /\ Len(args.labels) = MaxN
    /\ args.labels[1].id = args.labels[MaxN].id
    /\ args.labels[1].id # args.labels[2].id
    /\ Len(ret[1]) = 2
    /\ ret[2][1] = <<0, MaxN - 1>>

\* C6: an entry whose coefficient is zero contributes nothing: replacing its
\* share by any other share leaves gamma and every mu unchanged, gamma and the
\* mu of its signer are the sums over the remaining entries, and its identity
\* still appears in ord_ids.
\* (Every share sequence is evaluated in some state, so "any other share" is
\* stated as: the result equals that of the call with the identity share in
\* place i; two calls that differ only in place i then agree with each other.)
C6_ZeroCoefficientAnnihilates ==
    (op = "eval" /\ ret.ok) =>
        LET shares == args.sign_shares
            labels == program.labels
            aggr   == ret.val
        IN  \A i \in 1 .. Len(shares) :
                program.coeffs[i] = ScalarZero =>
                    LET rest  == (1 .. Len(shares)) \ {i}
                        blank == SignShare_new(labels[i].id, G1Zero, ScalarZero)
                        other == eval(program, [shares EXCEPT ![i] = blank]).val
                    IN  /\ other.gamma = aggr.gamma
                        /\ other.mus = aggr.mus
                        /\ aggr.gamma.e = SumMod(GammaTerms(program, shares), rest)
                        /\ \E j \in 1 .. Len(aggr.ord_ids) :
                            /\ aggr.ord_ids[j] = labels[i].id
                            /\ aggr.mus[j] =
                                SumMod(MuTerms(program, shares),
                                       {k \in rest : labels[k].id = labels[i].id})

\* the only entry of a signer has coefficient zero while its share is not zero
C6_Witness ==
    /\ op = "eval"
    /\ ret.ok
    /\ Len(args.sign_shares) = 2
    /\ program.coeffs[2] = ScalarZero
    /\ program.coeffs[1] # ScalarZero
    /\ program.labels[1].id # program.labels[2].id
    /\ args.sign_shares[2].mu # 0
    /\ args.sign_shares[2].gamma # G1Zero
    /\ ret.val.mus[2] = 0
    /\ Len(ret.val.ord_ids) = 2

\* C7: when the hash of the label succeeds, sign returns the share with
\* id = sk.id, mu = msg and gamma = (H(id bytes ++ tag bytes) + msg*G1) * x;
\* it fails exactly when the hash fails, with that error and no share.
C7_SignShareValue ==
    op = "sign" =>
        LET h == hash_to_g1_with(args.pp.h2g1_label,
                                 args.label.id \o args.label.tag)
        IN  IF h.ok
            THEN /\ ret.ok
                 /\ ret.val.id = args.sk.id
                 /\ ret.val.mu = args.msg
                 /\ ret.val.gamma =
                        [grp |-> "G1",
                         e   |-> ((h.val.e + args.msg) * args.sk.value) % FieldOrder]
            ELSE /\ ret = Err(Algebra(h.err))
                 /\ h.err = HashToCurve
                 /\ "val" \notin DOMAIN ret

\* a share over a nonzero message under a key other than 0 and 1, by a signer
\* that the label does not name
C7_Witness ==
    /\ op = "sign"
    /\ ret.ok
    /\ args.msg # 0
    /\ args.sk.value > 1
    /\ args.sk.id # args.label.id
    /\ ret.val.gamma # G1Zero

\* C8: when the byte fill succeeds and the source yields a nonzero scalar,
\* keygen returns (sk, pk) with sk's scalar the first nonzero scalar drawn,
\* pk's value that scalar times G2, and both ids the bytes drawn first; no
\* returned secret key has scalar zero.
C8_KeygenNonzeroKey ==
    op = "keygen" =>
        LET rng == args.rng
            nz  == {k \in 1 .. Len(rng.scalars) : rng.scalars[k] # 0}
        IN  /\ (rng.fill.ok /\ nz # {}) =>
                LET first == CHOOSE k \in nz : \A m \in nz : k <= m
                IN  /\ ret.ok
                    /\ ret.val[1].value = rng.scalars[first]
                    /\ ret.val[1].value # 0
                    /\ ret.val[2].value =
                        [grp |-> "G2", e |-> (1 * ret.val[1].value) % FieldOrder]
                    /\ ret.val[1].id = rng.fill.val
                    /\ ret.val[2].id = rng.fill.val
            /\ ret.ok => ret.val[1].value # 0

\* keygen drew zero first, resampled, and returned a key
C8_Witness ==
    /\ op = "keygen"
    /\ ret.ok
    /\ args.rng.scalars[1] = 0
    /\ ret.val[1].value # 0

\* C9: eval does not compare share identities with label identities: it
\* succeeds when they differ, returns the same aggregate for any share
\* sequence that differs only in the id fields, and ord_ids and the shape of
\* mus depend on the program's labels alone.
\* (Every share sequence is evaluated in some state, so "the same aggregate"
\* is stated as: the result equals that of the call whose shares carry the
\* label identities; two calls that differ only in ids then agree.)
C9_ShareIdsIgnored ==
    (op = "eval" /\ LengthsAgree(program, args.sign_shares)) =>
        LET shares   == args.sign_shares
            len      == Len(shares)
            aligned  == [i \in 1 .. len |->
                            [shares[i] EXCEPT !.id = program.labels[i].id]]
            grouping == organize(program.labels)
        IN  /\ ret.ok
            /\ eval(program, aligned) = ret
            /\ ret.val.ord_ids = grouping[1]
            /\ Len(ret.val.mus) = Len(grouping[2])

\* eval succeeded although every share carries the identity of another signer
C9_Witness ==
    /\ op = "eval"
    /\ ret.ok
    /\ Len(args.sign_shares) = MaxN
    /\ \A i \in 1 .. MaxN : args.sign_shares[i].id # program.labels[i].id

\* C10: Label::to_bytes is the K identity bytes followed by the K tag bytes,
\* 2K bytes in all, and two labels have the same encoding exactly when their
\* identity bytes and their tag bytes are equal.
C10_ToBytesInjective ==
    op = "to_bytes" =>
        LET label == args.label
        IN  /\ Len(ret) = 2 * K
            /\ \A i \in 1 .. K : ret[i] = label.id[i] /\ ret[K + i] = label.tag[i]
            /\ \A other \in Label :
                (to_bytes(other) = ret) <=>
                    (other.id = label.id /\ other.tag = label.tag)

\* the encoding of a label whose identity and tag differ in every byte
C10_Witness ==
    /\ op = "to_bytes"
    /\ \A i \in 1 .. K : args.label.id[i] # args.label.tag[i]
    /\ Len(ret) = 2 * K

\* C11: when every share is the output of sign under the key of the signer
\* that its label names, for that label and a message m_i, the gamma of eval
\* is the sum over the positions j of ord_ids of
\*   x_(ord_ids[j]) * ((sum over the i of group j of coeffs[i] * H(labels[i]))
\*                     + mus[j] * G1),
\* the signature of each signer on its weighted label hashes and on mus[j].
C11_SignEvalHomomorphism ==
    (op = "eval" /\ "keys" \in DOMAIN args) =>
        LET labels == program.labels
            aggr   == ret.val
            hashes == [i \in 1 .. Len(labels) |->
                          program.coeffs[i] *
                          hash_to_g1_with(args.pp.h2g1_label,
                                          labels[i].id \o labels[i].tag).val.e]
            signed == [j \in 1 .. Len(aggr.ord_ids) |->
                          args.keys[aggr.ord_ids[j]] *
                          (SumMod(hashes, {i \in 1 .. Len(labels) :
                                              labels[i].id = aggr.ord_ids[j]})
                           + aggr.mus[j] * g1_gen.e)]
        IN  /\ ret.ok
            /\ Len(aggr.mus) = Len(aggr.ord_ids)
            /\ aggr.gamma =
                [grp |-> "G1", e |-> SumMod(signed, 1 .. Len(aggr.ord_ids))]

\* labels [A, B, A] signed under two different nonzero keys, every coefficient
\* and message nonzero, the coefficients not all equal
C11_Witness ==
    /\ op = "eval"
    /\ "keys" \in DOMAIN args
    /\ ret.ok
    /\ Len(program.labels) = 3
    /\ program.labels[1].id = program.labels[3].id
    /\ program.labels[1].id # program.labels[2].id
    /\ args.keys[program.labels[1].id] # args.keys[program.labels[2].id]
    /\ \A id \in SignerIds : args.keys[id] # 0
    /\ \A i \in 1 .. 3 : program.coeffs[i] # 0 /\ args.sign_shares[i].mu # 0
    /\ program.coeffs[1] # program.coeffs[3]
    /\ ret.val.gamma # G1Zero

====
